---- MODULE Spec2Model ----
(***************************************************************************)
(* Loan-underwriting tools of src/src/function_app.py.                     *)
(*                                                                         *)
(* Every tool is a synchronous handler: it receives one context (a JSON    *)
(* document), computes, and returns one JSON document.  No handler keeps   *)
(* module-level state.  The state machine below therefore has one request  *)
(* in flight: Init is a received request (tool name and context, drawn    *)
(* from bounded sets), and one action per handler turns the request into   *)
(* that handler's return value.  A session (SessionSpec) is a sequence of  *)
(* such requests, served by worker processes that may be replaced between  *)
(* two requests; history records the calls a session has completed.        *)
(*                                                                         *)
(* Units.  Python floats are modelled as scaled integers:                  *)
(*   rates (0.035)          parts per million       (35000)                *)
(*   percentages (3.5)      thousandths of a percent (3500), the 3         *)
(*                          decimals that round(x * 100, 3) keeps          *)
(*   money (385.46)         cents (38546), the 2 decimals of round(x, 2)   *)
(*   confidence, probability  hundredths (0.95 is 95)                      *)
(* Amounts, scores and incomes of a request are integers.                  *)
(* json.dumps is injective on the dictionaries returned, so the returned   *)
(* string is modelled as the dictionary (a record).                        *)
(***************************************************************************)
EXTENDS Integers, Sequences, FiniteSets, TLC

VARIABLES tool, context, pc, result, history, string_hashes

vars == <<tool, context, pc, result, history, string_hashes>>

(***************************************************************************)
(* JSON values of an argument map.  Absent is a key the map does not hold  *)
(* (dict.get then yields its default), Null is an explicit JSON null.      *)
(***************************************************************************)
Absent == [t |-> "absent", n |-> 0, s |-> ""]
Null == [t |-> "null", n |-> 0, s |-> ""]
Num(x) == [t |-> "num", n |-> x, s |-> ""]
Str(x) == [t |-> "str", n |-> 0, s |-> x]

IsNum(v) == v.t = "num"
IsStr(v) == v.t = "str"

\* dict.get(key): an absent key yields None
Get(v) == IF v.t = "absent" THEN Null ELSE v
\* dict.get(key, default)
GetDefault(v, d) == IF v.t = "absent" THEN d ELSE v

\* Python truth value of None, a number or a string
Truthy(v) ==
    \/ v.t = "num" /\ v.n # 0
    \/ v.t = "str" /\ v.s # ""

\* all([...]) over a sequence of values
RECURSIVE All(_)
All(vs) == IF vs = <<>> THEN TRUE ELSE Truthy(Head(vs)) /\ All(Tail(vs))

\* str.lower() on the vehicle-type strings of the model
Lower(s) ==
    CASE s = "NEW_CAR" -> "new_car"
      [] s = "Used_Car" -> "used_car"
      [] s = "Electric_Vehicle" -> "electric_vehicle"
      [] OTHER -> s

Abs(x) == IF x < 0 THEN -x ELSE x

\* round(num / den) to the nearest integer, ties to even (num any sign, den > 0)
RoundDiv(num, den) ==
    LET a == Abs(num)
        q == a \div den
        r == a % den
        m == IF 2 * r > den \/ (2 * r = den /\ q % 2 = 1) THEN q + 1 ELSE q
    IN  IF num < 0 THEN -m ELSE m

(***************************************************************************)
(* Arithmetic for the amortization formula.  The handlers compute it in    *)
(* IEEE doubles; the model computes it in fixed point, FracLimbs limbs of  *)
(* 4 decimal digits after the point, on natural numbers held as sequences  *)
(* of limbs (least significant first) so that no intermediate product      *)
(* leaves the 32-bit integers of the checker.  The error of either         *)
(* computation is far below the half cent that round(x, 2) decides on.     *)
(***************************************************************************)
Base == 10000
FracLimbs == 4

Limb(a, i) == IF i >= 1 /\ i <= Len(a) THEN a[i] ELSE 0

\* propagate carries through the limbs of s, c the carry coming in
RECURSIVE Carry(_, _)
Carry(s, c) ==
    IF s = <<>>
    THEN IF c = 0 THEN <<>> ELSE <<c % Base>> \o Carry(<<>>, c \div Base)
    ELSE <<(s[1] + c) % Base>> \o Carry(Tail(s), (s[1] + c) \div Base)

ToLimbs(x) == Carry(<<>>, x)

RECURSIVE ColSum(_, _, _, _)
ColSum(a, b, k, i) ==
    IF i > Len(a) THEN 0
    ELSE a[i] * Limb(b, k + 1 - i) + ColSum(a, b, k, i + 1)

Mul(a, b) ==
    IF a = <<>> \/ b = <<>> THEN <<>>
    ELSE Carry([k \in 1..(Len(a) + Len(b) - 1) |-> ColSum(a, b, k, 1)], 0)

RECURSIVE CmpFrom(_, _, _)
CmpFrom(a, b, i) ==
    IF i = 0 THEN 0
    ELSE IF Limb(a, i) > Limb(b, i) THEN 1
    ELSE IF Limb(a, i) < Limb(b, i) THEN -1
    ELSE CmpFrom(a, b, i - 1)

Leq(a, b) == CmpFrom(a, b, IF Len(a) > Len(b) THEN Len(a) ELSE Len(b)) <= 0

\* quotient of a by a small divisor d, from the most significant limb down
RECURSIVE DivSmallFrom(_, _, _, _)
DivSmallFrom(a, d, i, rem) ==
    IF i = 0 THEN <<>>
    ELSE DivSmallFrom(a, d, i - 1, (rem * Base + a[i]) % d)
            \o <<(rem * Base + a[i]) \div d>>

DivSmall(a, d) == DivSmallFrom(a, d, Len(a), 0)

ShiftUp(a, k) == [i \in 1..k |-> 0] \o a
ShiftDown(a, k) == SubSeq(a, k + 1, Len(a))

FxOne == ShiftUp(<<1>>, FracLimbs)
FxMul(a, b) == ShiftDown(Mul(a, b), FracLimbs)

\* x ** n
RECURSIVE FxPow(_, _)
FxSquare(h) == FxMul(h, h)
FxPow(x, n) ==
    IF n = 0 THEN FxOne
    ELSE IF n % 2 = 0 THEN FxSquare(FxPow(x, n \div 2))
    ELSE FxMul(x, FxPow(x, n - 1))

\* monthly_rate = final_rate / 12, final_rate in parts per million
FxMonthlyRate(rate_ppm) ==
    DivSmall(DivSmall(ShiftUp(ToLimbs(rate_ppm), FracLimbs), 12000), 1000)

\* 1 + r for a fixed-point r below 1
FxOnePlus(r) ==
    [i \in 1..(FracLimbs + 1) |-> IF i = FracLimbs + 1 THEN 1 ELSE Limb(r, i)]

\* the largest q in lo..(hi - 1) with (2q - 1) * den <= num2, that is
\* round(num2 / (2 * den)); lo satisfies the inequality and hi does not
RECURSIVE RoundQuot(_, _, _, _)
RoundQuot(num2, den, lo, hi) ==
    IF hi - lo <= 1 THEN lo
    ELSE LET mid == (lo + hi) \div 2
         IN  IF Leq(Mul(ToLimbs(2 * mid - 1), den), num2)
             THEN RoundQuot(num2, den, mid, hi)
             ELSE RoundQuot(num2, den, lo, mid)

MaxCents == 67108864

\* round(k * principal * r(1+r)^n / ((1+r)^n - 1)) for principal >= 0,
\* r the monthly rate of rate_ppm > 0
AmortizedCents(k, principal, rate_ppm, n) ==
    LET r == FxMonthlyRate(rate_ppm)
        pw == FxPow(FxOnePlus(r), n)
        num2 == Mul(Mul(Mul(ToLimbs(2 * k), ToLimbs(principal)), r), pw)
        den == ShiftUp([pw EXCEPT ![FracLimbs + 1] = @ - 1], FracLimbs)
    IN  RoundQuot(num2, den, 0, MaxCents)

(***************************************************************************)
(* Contexts.  A context is the JSON text handed to a handler: text that    *)
(* json.loads rejects, an object without "arguments", or an object whose   *)
(* "arguments" is the argument map.                                        *)
(***************************************************************************)
ArgNames ==
    {"application_id", "customer_id", "loan_amount", "credit_score",
     "vehicle_type", "annual_income", "employment_years", "decision", "reason"}

NoArgs == [k \in ArgNames |-> Absent]

Unparsable == [kind |-> "unparsable", args |-> NoArgs]
NoArguments == [kind |-> "noargs", args |-> NoArgs]
Arguments(a) == [kind |-> "ok", args |-> a]

\* the value json.dumps(...) of a handler returns
Error(msg) == [error |-> msg]
IsError(r) == DOMAIN r = {"error"}
\* Python None in a result
None == [null |-> TRUE]

\* an exception that leaves the handler
Raised == [raised |-> TRUE]

\* mutant: the except clause re-raises
Except_reraise(msg) == Raised

\* try: ... except Exception: return json.dumps({"error": msg}).  What the
\* handlers raise (JSONDecodeError, TypeError, AttributeError,
\* ZeroDivisionError) is an Exception, so the clause catches it.
Except(msg) == Error(msg)

\* dict.get(key, default) on a lookup table
DictGet(d, k, default) == IF k \in DOMAIN d THEN d[k] ELSE default

(***************************************************************************)
(* get_risk_profile                                                        *)
(***************************************************************************)
credit_risk(credit_score) ==
    IF credit_score >= 750 THEN "low"
    ELSE IF credit_score >= 650 THEN "medium" ELSE "high"

amount_risk(loan_amount) ==
    IF loan_amount <= 50000 THEN "low"
    ELSE IF loan_amount <= 80000 THEN "medium" ELSE "high"

risk_credit_points(credit_score) ==
    IF credit_score >= 750 THEN 20
    ELSE IF credit_score >= 700 THEN 15
    ELSE IF credit_score >= 650 THEN 10
    ELSE 5

\* mutant: the band edges taken as strict
risk_amount_points_strict(loan_amount) ==
    IF loan_amount < 30000 THEN 15
    ELSE IF loan_amount < 60000 THEN 10
    ELSE 5

risk_amount_points(loan_amount) ==
    IF loan_amount <= 30000 THEN 15
    ELSE IF loan_amount <= 60000 THEN 10
    ELSE 5

risk_score(credit_score, loan_amount) ==
    0 + risk_credit_points(credit_score) + risk_amount_points(loan_amount)

\* mutant: a caller seen before in the session rated "high"
overall_risk_of_repeat_caller(score) ==
    IF history # <<>> THEN "high"
    ELSE IF score >= 30 THEN "low" ELSE IF score >= 20 THEN "medium" ELSE "high"

overall_risk(score) ==
    IF score >= 30 THEN "low" ELSE IF score >= 20 THEN "medium" ELSE "high"

\* hundredths
probability_of_default(risk) ==
    IF risk = "low" THEN 2 ELSE IF risk = "medium" THEN 8 ELSE 15

\* parts per million
recommended_rate(risk) ==
    IF risk = "low" THEN 35000 ELSE IF risk = "medium" THEN 55000 ELSE 85000

risk_profile(customer_id, loan_amount, credit_score) ==
    LET score == risk_score(credit_score.n, loan_amount.n)
        risk == overall_risk(score)
    IN  [customer_id |-> customer_id,
         loan_amount |-> loan_amount,
         credit_score |-> credit_score,
         risk_assessment |->
            [overall_risk_level |-> risk,
             risk_score |-> score,
             credit_risk |-> credit_risk(credit_score.n),
             amount_risk |-> amount_risk(loan_amount.n),
             probability_of_default |-> probability_of_default(risk),
             recommended_interest_rate |-> recommended_rate(risk)],
         risk_factors |->
            [positive_factors |->
                IF credit_score.n >= 750 THEN <<"Excellent credit score">>
                ELSE <<>>,
             negative_factors |->
                (IF credit_score.n < 650
                 THEN <<"Below average credit score">> ELSE <<>>)
                \o (IF loan_amount.n > 80000
                    THEN <<"High loan amount">> ELSE <<>>),
             mitigation_strategies |->
                IF loan_amount.n > 80000
                THEN <<"Consider larger down payment">> ELSE <<>>],
         assessment_date |-> "2024-09-26"]

get_risk_profile(ctx) ==
    IF ctx.kind = "unparsable"
    THEN Except("Failed to calculate risk profile")
    ELSE IF ctx.kind = "noargs"
    THEN Error("No arguments provided")
    ELSE LET customer_id == Get(ctx.args.customer_id)
             loan_amount == Get(ctx.args.loan_amount)
             credit_score == Get(ctx.args.credit_score)
         IN  IF ~All(<<customer_id, loan_amount, credit_score>>)
             THEN Error("customer_id, loan_amount, and credit_score are required")
             \* comparing a string with a number raises TypeError
             ELSE IF ~IsNum(credit_score) \/ ~IsNum(loan_amount)
             THEN Except("Failed to calculate risk profile")
             ELSE risk_profile(customer_id, loan_amount, credit_score)

(***************************************************************************)
(* calculate_loan_terms                                                    *)
(***************************************************************************)
\* parts per million
base_rate(credit_score) ==
    IF credit_score >= 750 THEN 35000
    ELSE IF credit_score >= 700 THEN 45000
    ELSE IF credit_score >= 650 THEN 65000
    ELSE 85000

\* mutant: an electric-vehicle discount as large as the best base rate
rate_adjustments_electric_at_no_interest ==
    [new_car |-> 0,
     used_car |-> 5000,
     luxury_vehicle |-> 5000,
     commercial_vehicle |-> 10000,
     electric_vehicle |-> -35000,
     classic_vehicle |-> 15000]

\* parts per million
rate_adjustments ==
    [new_car |-> 0,
     used_car |-> 5000,
     luxury_vehicle |-> 5000,
     commercial_vehicle |-> 10000,
     electric_vehicle |-> -2500,
     classic_vehicle |-> 15000]

\* mutant: commercial vehicles financed over 60 months
default_terms_commercial_60 ==
    [new_car |-> 72,
     used_car |-> 60,
     luxury_vehicle |-> 60,
     commercial_vehicle |-> 60,
     electric_vehicle |-> 72,
     classic_vehicle |-> 48]

default_terms ==
    [new_car |-> 72,
     used_car |-> 60,
     luxury_vehicle |-> 60,
     commercial_vehicle |-> 48,
     electric_vehicle |-> 72,
     classic_vehicle |-> 48]

\* mutant: the vehicle adjustment left out of the rate
final_rate_no_adjustment(credit_score, vehicle_type) == base_rate(credit_score)

final_rate(credit_score, vehicle_type) ==
    base_rate(credit_score) + DictGet(rate_adjustments, Lower(vehicle_type), 0)

\* mutant: the 60-month default for every vehicle type
loan_term_months_fixed(vehicle_type) == 60

loan_term_months(vehicle_type) == DictGet(default_terms, Lower(vehicle_type), 60)

\* round(x * 100, 3) of a rate x: parts per million to thousandths of a percent
Percent3(rate_ppm) == RoundDiv(rate_ppm, 10)

\* round(k * monthly_payment, 2) in cents, monthly_payment by the
\* amortization formula, or loan_amount / num_payments at a zero rate
payment_cents(k, loan_amount, rate_ppm, num_payments) ==
    IF rate_ppm = 0
    THEN RoundDiv(k * loan_amount, num_payments)
    ELSE IF loan_amount < 0
    THEN -AmortizedCents(k, -loan_amount, rate_ppm, num_payments)
    ELSE AmortizedCents(k, loan_amount, rate_ppm, num_payments)

loan_terms(loan_amount, credit_score, vehicle_type) ==
    LET rate == final_rate(credit_score.n, vehicle_type.s)
        term == loan_term_months(vehicle_type.s)
        total == payment_cents(100 * term, loan_amount.n, rate, term)
    IN  [loan_amount |-> loan_amount,
         credit_score |-> credit_score,
         vehicle_type |-> vehicle_type,
         loan_terms |->
            [interest_rate |-> Percent3(rate),
             interest_rate_decimal |-> rate,
             loan_term_months |-> term,
             monthly_payment |-> payment_cents(100, loan_amount.n, rate, term),
             total_payment |-> total,
             total_interest |-> total - 100 * loan_amount.n,
             apr |-> Percent3(rate)],
         rate_breakdown |->
            [base_rate_percent |-> Percent3(base_rate(credit_score.n)),
             vehicle_adjustment_percent |->
                Percent3(DictGet(rate_adjustments, Lower(vehicle_type.s), 0)),
             final_rate_percent |-> Percent3(rate)],
         payment_schedule_summary |->
            [first_payment_date |-> "2024-10-26",
             final_payment_date |-> "2030-10-26",
             payment_frequency |-> "monthly"],
         calculation_date |-> "2024-09-26"]

calculate_loan_terms(ctx) ==
    IF ctx.kind = "unparsable"
    THEN Except("Failed to calculate loan terms")
    ELSE IF ctx.kind = "noargs"
    THEN Error("No arguments provided")
    ELSE LET loan_amount == Get(ctx.args.loan_amount)
             credit_score == Get(ctx.args.credit_score)
             vehicle_type == GetDefault(ctx.args.vehicle_type, Str("standard"))
         IN  IF ~All(<<loan_amount, credit_score>>)
             THEN Error("loan_amount and credit_score are required")
             \* TypeError on a string score or amount, AttributeError on
             \* .lower() of None or of a number
             ELSE IF ~IsNum(credit_score) \/ ~IsStr(vehicle_type)
                     \/ ~IsNum(loan_amount)
             THEN Except("Failed to calculate loan terms")
             ELSE loan_terms(loan_amount, credit_score, vehicle_type)

(***************************************************************************)
(* evaluate_loan_risk                                                      *)
(***************************************************************************)
credit_score_factor(credit_score) ==
    IF credit_score >= 750 THEN 40
    ELSE IF credit_score >= 700 THEN 30
    ELSE IF credit_score >= 650 THEN 20
    ELSE 10

loan_amount_factor(loan_amount) ==
    IF loan_amount <= 25000 THEN 35
    ELSE IF loan_amount <= 50000 THEN 25
    ELSE IF loan_amount <= 75000 THEN 15
    ELSE 5

vehicle_risk_weights ==
    [new_car |-> 25,
     used_car |-> 20,
     electric_vehicle |-> 23,
     luxury_vehicle |-> 15,
     commercial_vehicle |-> 10,
     classic_vehicle |-> 8]

vehicle_type_factor(vehicle_type) ==
    DictGet(vehicle_risk_weights, Lower(vehicle_type), 18)

\* mutant: the credit factor left out of the sum
overall_risk_score_without_credit(credit_score, loan_amount, vehicle_type) ==
    loan_amount_factor(loan_amount) + vehicle_type_factor(vehicle_type)

overall_risk_score(credit_score, loan_amount, vehicle_type) ==
    credit_score_factor(credit_score) + loan_amount_factor(loan_amount)
        + vehicle_type_factor(vehicle_type)

\* mutant: the confidence of the lowest band made to fall with the score
recommendation_falling_confidence(overall_score) ==
    IF overall_score >= 80
    THEN [risk_level |-> "low", recommendation |-> "approve", confidence |-> 95]
    ELSE IF overall_score >= 60
    THEN [risk_level |-> "medium", recommendation |-> "approve_with_conditions",
          confidence |-> 80]
    ELSE IF overall_score >= 40
    THEN [risk_level |-> "medium_high", recommendation |-> "manual_review",
          confidence |-> 60]
    ELSE [risk_level |-> "high", recommendation |-> "reject", confidence |-> 40]

\* risk_level, recommendation and confidence (hundredths) of an overall score
recommendation(overall_score) ==
    IF overall_score >= 80
    THEN [risk_level |-> "low", recommendation |-> "approve", confidence |-> 95]
    ELSE IF overall_score >= 60
    THEN [risk_level |-> "medium", recommendation |-> "approve_with_conditions",
          confidence |-> 80]
    ELSE IF overall_score >= 40
    THEN [risk_level |-> "medium_high", recommendation |-> "manual_review",
          confidence |-> 60]
    ELSE [risk_level |-> "high", recommendation |-> "reject", confidence |-> 85]

risk_evaluation(application_id, customer_id, loan_amount, credit_score, vehicle_type) ==
    LET overall_score ==
            overall_risk_score(credit_score.n, loan_amount.n, vehicle_type.s)
        rec == recommendation(overall_score)
    IN  [application_id |-> application_id,
         customer_id |-> customer_id,
         evaluation_summary |->
            [overall_risk_level |-> rec.risk_level,
             risk_score |-> overall_score,
             max_possible_score |-> 100,
             recommendation |-> rec.recommendation,
             confidence_level |-> rec.confidence],
         risk_factor_breakdown |->
            [credit_score_factor |-> credit_score_factor(credit_score.n),
             loan_amount_factor |-> loan_amount_factor(loan_amount.n),
             vehicle_type_factor |-> vehicle_type_factor(vehicle_type.s),
             overall_risk_score |-> overall_score],
         detailed_analysis |->
            [strengths |->
                IF credit_score.n >= 750
                THEN <<"Excellent credit score indicates low default risk">>
                ELSE <<>>,
             concerns |->
                (IF credit_score.n < 650
                 THEN <<"Below-average credit score increases default risk">>
                 ELSE <<>>)
                \o (IF loan_amount.n > 75000
                    THEN <<"High loan amount increases exposure">> ELSE <<>>),
             mitigating_factors |->
                IF Lower(vehicle_type.s) = "electric_vehicle"
                THEN <<"Electric vehicle qualifies for green financing incentives">>
                ELSE <<>>,
             recommendations |->
                IF loan_amount.n > 75000
                THEN <<"Consider requiring larger down payment">> ELSE <<>>],
         evaluation_date |-> "2024-09-26",
         evaluator |-> "AI_Risk_Engine_v1.0"]

evaluate_loan_risk(ctx) ==
    IF ctx.kind = "unparsable"
    THEN Except("Failed to evaluate loan risk")
    ELSE IF ctx.kind = "noargs"
    THEN Error("No arguments provided")
    ELSE LET application_id == Get(ctx.args.application_id)
             customer_id == Get(ctx.args.customer_id)
             loan_amount == Get(ctx.args.loan_amount)
             credit_score == Get(ctx.args.credit_score)
             vehicle_type == GetDefault(ctx.args.vehicle_type, Str("standard"))
         IN  IF ~All(<<application_id, customer_id, loan_amount, credit_score>>)
             THEN Error("application_id, customer_id, loan_amount, and credit_score are required")
             ELSE IF ~IsNum(credit_score) \/ ~IsNum(loan_amount)
                     \/ ~IsStr(vehicle_type)
             THEN Except("Failed to evaluate loan risk")
             ELSE risk_evaluation(application_id, customer_id, loan_amount,
                                  credit_score, vehicle_type)

(***************************************************************************)
(* generate_loan_decision                                                  *)
(***************************************************************************)
\* mutant: the four tiers of the other scorers, without the 600 band
credit_points_four_tiers(credit_score) ==
    IF credit_score >= 750 THEN 40
    ELSE IF credit_score >= 700 THEN 30
    ELSE IF credit_score >= 650 THEN 20
    ELSE 0

credit_points(credit_score) ==
    IF credit_score >= 750 THEN 40
    ELSE IF credit_score >= 700 THEN 30
    ELSE IF credit_score >= 650 THEN 20
    ELSE IF credit_score >= 600 THEN 10
    ELSE 0

\* loan_to_income_ratio <= 3 is loan_amount <= 3 * annual_income, annual_income > 0
\* mutant: 35 points for a loan of at most three times the income
income_points_35(loan_amount, annual_income) ==
    IF annual_income > 0
    THEN IF loan_amount <= 3 * annual_income THEN 35
         ELSE IF loan_amount <= 4 * annual_income THEN 15
         ELSE 0
    ELSE 0

income_points(loan_amount, annual_income) ==
    IF annual_income > 0
    THEN IF loan_amount <= 3 * annual_income THEN 25
         ELSE IF loan_amount <= 4 * annual_income THEN 15
         ELSE 0
    ELSE 0

\* mutant: the smallest loans given the points of the middle band
amount_points_small_loans_discounted(loan_amount) ==
    IF loan_amount <= 30000 THEN 5
    ELSE IF loan_amount <= 60000 THEN 15
    ELSE IF loan_amount <= 100000 THEN 5
    ELSE 0

amount_points(loan_amount) ==
    IF loan_amount <= 30000 THEN 20
    ELSE IF loan_amount <= 60000 THEN 15
    ELSE IF loan_amount <= 100000 THEN 5
    ELSE 0

\* mutant: a 20-point bonus for an electric vehicle
vehicle_bonuses_electric_20 ==
    [new_car |-> 10,
     electric_vehicle |-> 20,
     used_car |-> 8,
     luxury_vehicle |-> 5,
     commercial_vehicle |-> 3,
     classic_vehicle |-> 2]

vehicle_bonuses ==
    [new_car |-> 10,
     electric_vehicle |-> 12,
     used_car |-> 8,
     luxury_vehicle |-> 5,
     commercial_vehicle |-> 3,
     classic_vehicle |-> 2]

\* mutant: no bonus for a vehicle type the table does not list
vehicle_bonus_listed_only(vehicle_type) ==
    DictGet(vehicle_bonuses, Lower(vehicle_type), 0)

vehicle_bonus(vehicle_type) == DictGet(vehicle_bonuses, Lower(vehicle_type), 5)

\* mutant: the loan-to-income points never added
approval_score_no_income(credit_score, loan_amount, annual_income, vehicle_type) ==
    0 + credit_points(credit_score) + amount_points(loan_amount)
      + vehicle_bonus(vehicle_type)

approval_score(credit_score, loan_amount, annual_income, vehicle_type) ==
    0 + credit_points(credit_score) + income_points(loan_amount, annual_income)
      + amount_points(loan_amount) + vehicle_bonus(vehicle_type)

\* one entry of decision_factors: its text and the value the f-string inserts
\* (the ratio to one decimal, in tenths; the vehicle type; nothing)
Factor(text, value) == [text |-> text, value |-> value]

decision_factors(credit_score, loan_amount, annual_income, vehicle_type) ==
    <<Factor(IF credit_score >= 750 THEN "Excellent credit score (750+)"
             ELSE IF credit_score >= 700 THEN "Good credit score (700-749)"
             ELSE IF credit_score >= 650 THEN "Fair credit score (650-699)"
             ELSE IF credit_score >= 600 THEN "Marginal credit score (600-649)"
             ELSE "Poor credit score (below 600)", Null),
      IF annual_income > 0
      THEN Factor(IF loan_amount <= 3 * annual_income
                  THEN "Favorable loan-to-income ratio"
                  ELSE IF loan_amount <= 4 * annual_income
                  THEN "Acceptable loan-to-income ratio"
                  ELSE "High loan-to-income ratio",
                  Num(RoundDiv(10 * loan_amount, annual_income)))
      ELSE Factor("Income information not provided", Null),
      Factor(IF loan_amount <= 30000 THEN "Moderate loan amount"
             ELSE IF loan_amount <= 60000 THEN "Standard loan amount"
             ELSE IF loan_amount <= 100000 THEN "High loan amount"
             ELSE "Loan amount exceeds policy limits", Null),
      Factor("Vehicle type", Str(vehicle_type))>>

\* mutant: the thresholds taken as strict
decide_strict(score) ==
    IF score > 80
    THEN [decision |-> "approved",
          decision_reason |->
            "Application meets all approval criteria with strong financial profile"]
    ELSE IF score > 60
    THEN [decision |-> "approved_with_conditions",
          decision_reason |->
            "Application approved with additional conditions or monitoring"]
    ELSE IF score > 40
    THEN [decision |-> "pending_review",
          decision_reason |-> "Application requires human underwriter review"]
    ELSE [decision |-> "rejected",
          decision_reason |->
            "Application does not meet minimum approval criteria"]

decide(score) ==
    IF score >= 80
    THEN [decision |-> "approved",
          decision_reason |->
            "Application meets all approval criteria with strong financial profile"]
    ELSE IF score >= 60
    THEN [decision |-> "approved_with_conditions",
          decision_reason |->
            "Application approved with additional conditions or monitoring"]
    ELSE IF score >= 40
    THEN [decision |-> "pending_review",
          decision_reason |-> "Application requires human underwriter review"]
    ELSE [decision |-> "rejected",
          decision_reason |->
            "Application does not meet minimum approval criteria"]

\* parts per million
interest_rate(credit_score) ==
    IF credit_score >= 750 THEN 35000
    ELSE IF credit_score >= 700 THEN 45000
    ELSE IF credit_score >= 650 THEN 65000
    ELSE 85000

\* parts per million
decision_rate_adjustments ==
    [electric_vehicle |-> -2500,
     luxury_vehicle |-> 5000,
     commercial_vehicle |-> 10000,
     classic_vehicle |-> 15000]

decision_final_rate(credit_score, vehicle_type) ==
    interest_rate(credit_score)
        + DictGet(decision_rate_adjustments, Lower(vehicle_type), 0)

loan_term == 60

\* mutant: terms for every decision but a rejection
decision_loan_terms_unless_rejected(decision, loan_amount, credit_score, vehicle_type) ==
    IF decision # "rejected"
    THEN LET rate == decision_final_rate(credit_score, vehicle_type)
         IN  [interest_rate_percent |-> Percent3(rate),
              loan_term_months |-> loan_term,
              monthly_payment |-> payment_cents(100, loan_amount, rate, loan_term),
              total_payment |->
                 payment_cents(100 * loan_term, loan_amount, rate, loan_term)]
    ELSE None

decision_loan_terms(decision, loan_amount, credit_score, vehicle_type) ==
    IF decision \in {"approved", "approved_with_conditions"}
    THEN LET rate == decision_final_rate(credit_score, vehicle_type)
         IN  [interest_rate_percent |-> Percent3(rate),
              loan_term_months |-> loan_term,
              monthly_payment |->
                 IF loan_amount < 0
                 THEN -AmortizedCents(100, -loan_amount, rate, loan_term)
                 ELSE AmortizedCents(100, loan_amount, rate, loan_term),
              total_payment |->
                 IF loan_amount < 0
                 THEN -AmortizedCents(100 * loan_term, -loan_amount, rate, loan_term)
                 ELSE AmortizedCents(100 * loan_term, loan_amount, rate, loan_term)]
    ELSE None

conditions(decision) ==
    IF decision = "approved_with_conditions"
    THEN <<"Income verification required",
           "Vehicle appraisal required",
           "Insurance coverage confirmation needed">>
    ELSE <<>>

\* mutant: the next steps of a rejection given to a pending review too
next_steps_review_as_rejected(decision) ==
    IF decision = "approved_with_conditions"
    THEN <<"Submit required documentation",
           "Schedule vehicle inspection",
           "Finalize insurance coverage">>
    ELSE IF decision \in {"pending_review", "rejected"}
    THEN <<"Consider reapplying after improving credit score",
           "Explore co-signer options",
           "Consider smaller loan amount">>
    ELSE <<>>

next_steps(decision) ==
    IF decision = "approved_with_conditions"
    THEN <<"Submit required documentation",
           "Schedule vehicle inspection",
           "Finalize insurance coverage">>
    ELSE IF decision = "pending_review"
    THEN <<"Application forwarded to human underwriter",
           "Additional documentation may be requested",
           "Decision expected within 2-3 business days">>
    ELSE IF decision = "rejected"
    THEN <<"Consider reapplying after improving credit score",
           "Explore co-signer options",
           "Consider smaller loan amount">>
    ELSE <<>>

decision_response(application_id, customer_id, loan_amount, credit_score, vehicle_type, annual_income) ==
    LET score == approval_score(credit_score.n, loan_amount.n,
                                annual_income.n, vehicle_type.s)
        d == decide(score)
    IN  [application_id |-> application_id,
         customer_id |-> customer_id,
         decision |-> d.decision,
         decision_reason |-> d.decision_reason,
         approval_score |-> score,
         max_score |-> 100,
         decision_factors |->
            decision_factors(credit_score.n, loan_amount.n,
                             annual_income.n, vehicle_type.s),
         loan_terms |->
            decision_loan_terms(d.decision, loan_amount.n,
                                credit_score.n, vehicle_type.s),
         conditions |-> conditions(d.decision),
         next_steps |-> next_steps(d.decision),
         decision_date |-> "2024-09-26",
         decision_engine |-> "AI_Underwriter_v1.0"]

\* mutant: a decision only for an application the session has validated
generate_loan_decision_once_validated(ctx) ==
    IF \E i \in 1..Len(history) :
            /\ history[i].tool = "validate_loan_application"
            /\ ~IsError(history[i].result)
            /\ history[i].result.is_valid
            /\ history[i].context.args.application_id = ctx.args.application_id
    THEN decision_response(Get(ctx.args.application_id), Get(ctx.args.customer_id),
                           Get(ctx.args.loan_amount), Get(ctx.args.credit_score),
                           GetDefault(ctx.args.vehicle_type, Str("standard")),
                           GetDefault(ctx.args.annual_income, Num(0)))
    ELSE Error("Application has not been validated")

generate_loan_decision(ctx) ==
    IF ctx.kind = "unparsable"
    THEN Except("Failed to generate loan decision")
    ELSE IF ctx.kind = "noargs"
    THEN Error("No arguments provided")
    ELSE LET application_id == Get(ctx.args.application_id)
             customer_id == Get(ctx.args.customer_id)
             loan_amount == Get(ctx.args.loan_amount)
             credit_score == Get(ctx.args.credit_score)
             vehicle_type == GetDefault(ctx.args.vehicle_type, Str("standard"))
             annual_income == GetDefault(ctx.args.annual_income, Num(0))
         IN  IF ~All(<<application_id, customer_id, loan_amount, credit_score>>)
             THEN Error("Missing required fields for loan decision")
             \* TypeError on a string score or amount and on a None or string
             \* income, AttributeError on .lower() of None or of a number
             ELSE IF ~IsNum(credit_score) \/ ~IsNum(annual_income)
                     \/ ~IsNum(loan_amount) \/ ~IsStr(vehicle_type)
             THEN Except("Failed to generate loan decision")
             \* ZeroDivisionError in the amortization formula at a zero rate
             ELSE IF decide(approval_score(credit_score.n, loan_amount.n,
                                           annual_income.n, vehicle_type.s)).decision
                        \in {"approved", "approved_with_conditions"}
                     /\ decision_final_rate(credit_score.n, vehicle_type.s) = 0
             THEN Except("Failed to generate loan decision")
             ELSE decision_response(application_id, customer_id, loan_amount,
                                    credit_score, vehicle_type, annual_income)

(***************************************************************************)
(* validate_loan_application                                               *)
(*                                                                         *)
(* A message of validation_errors or validation_warnings is its fixed text *)
(* and the values formatted into it: the missing field names, or the       *)
(* debt-to-income ratio in hundredths of a percent ("40.00%" is 4000).     *)
(***************************************************************************)
Msg(text, detail) == [text |-> text, detail |-> detail]

\* what one check of the handler does: the errors and warnings it appends
\* and whether it sets is_valid to False
Check(errors, warnings, invalid) ==
    [errors |-> errors, warnings |-> warnings, invalid |-> invalid]

Passed == Check(<<>>, <<>>, FALSE)

required_fields ==
    <<"application_id", "customer_id", "loan_amount", "vehicle_type",
      "credit_score", "annual_income", "employment_years">>

\* for field in required_fields: if not args.get(field)
missing_fields(args) ==
    SelectSeq(required_fields, LAMBDA field : ~Truthy(Get(args[field])))

FieldNames(fields) == [i \in 1..Len(fields) |-> Str(fields[i])]

check_required_fields(args) ==
    IF missing_fields(args) # <<>>
    THEN Check(<<Msg("Missing required fields", FieldNames(missing_fields(args)))>>,
               <<>>, TRUE)
    ELSE Passed

check_loan_amount(loan_amount) ==
    IF loan_amount <= 0
    THEN Check(<<Msg("Loan amount must be greater than 0", <<>>)>>, <<>>, TRUE)
    ELSE IF loan_amount > 100000
    THEN Check(<<>>,
               <<Msg("Loan amount exceeds typical limits - may require additional approval", <<>>)>>,
               FALSE)
    ELSE Passed

check_credit_score(credit_score) ==
    IF credit_score < 300 \/ credit_score > 850
    THEN Check(<<Msg("Credit score must be between 300 and 850", <<>>)>>, <<>>, TRUE)
    ELSE IF credit_score < 600
    THEN Check(<<>>,
               <<Msg("Credit score below minimum threshold - high risk application", <<>>)>>,
               FALSE)
    ELSE Passed

check_annual_income(annual_income) ==
    IF annual_income <= 0
    THEN Check(<<Msg("Annual income must be greater than 0", <<>>)>>, <<>>, TRUE)
    ELSE IF annual_income < 30000
    THEN Check(<<>>,
               <<Msg("Low income relative to loan amount - debt-to-income ratio may be high", <<>>)>>,
               FALSE)
    ELSE Passed

\* mutant: a negative employment history appended to the errors with
\* is_valid left alone
check_employment_years_keeps_valid(employment_years) ==
    IF employment_years < 0
    THEN Check(<<Msg("Employment years cannot be negative", <<>>)>>, <<>>, FALSE)
    ELSE Passed

check_employment_years(employment_years) ==
    IF employment_years < 0
    THEN Check(<<Msg("Employment years cannot be negative", <<>>)>>, <<>>, TRUE)
    ELSE IF employment_years < 2
    THEN Check(<<>>,
               <<Msg("Short employment history - may require additional verification", <<>>)>>,
               FALSE)
    ELSE Passed

\* mutant: a ratio of exactly 0.4 counted as high
debt_to_income_high_from_40_percent(loan_amount, annual_income) ==
    3 * loan_amount >= 5 * annual_income

\* (loan_amount * 0.02 * 12) / annual_income > 0.4, for annual_income > 0
debt_to_income_high(loan_amount, annual_income) ==
    3 * loan_amount > 5 * annual_income

\* the ratio as f"{debt_to_income:.2%}" prints it, in hundredths of a percent
debt_to_income_percent(loan_amount, annual_income) ==
    RoundDiv(2400 * loan_amount, annual_income)

check_debt_to_income(loan_amount, annual_income) ==
    IF loan_amount > 0 /\ annual_income > 0
       /\ debt_to_income_high(loan_amount, annual_income)
    THEN Check(<<>>,
               <<Msg("High debt-to-income ratio",
                     <<Num(debt_to_income_percent(loan_amount, annual_income))>>)>>,
               FALSE)
    ELSE Passed

\* mutant: the range rules skipped once a required field is missing
checks_after_required_fields(args, loan_amount, credit_score, annual_income, employment_years) ==
    IF missing_fields(args) # <<>>
    THEN <<check_required_fields(args)>>
    ELSE <<check_required_fields(args),
           check_loan_amount(loan_amount),
           check_credit_score(credit_score),
           check_annual_income(annual_income),
           check_employment_years(employment_years),
           check_debt_to_income(loan_amount, annual_income)>>

checks(args, loan_amount, credit_score, annual_income, employment_years) ==
    <<check_required_fields(args),
      check_loan_amount(loan_amount),
      check_credit_score(credit_score),
      check_annual_income(annual_income),
      check_employment_years(employment_years),
      check_debt_to_income(loan_amount, annual_income)>>

\* the messages the checks appended, in the order of the checks
RECURSIVE Appended(_, _)
Appended(cs, list) ==
    IF cs = <<>> THEN <<>> ELSE Head(cs)[list] \o Appended(Tail(cs), list)

\* mutant: business_rules_passed decided by the range rules alone
validation_result_rules_apart(application_id, cs) ==
    LET validation_errors == Appended(cs, "errors")
        is_valid == \A i \in 1..Len(cs) : ~cs[i].invalid
    IN  [application_id |-> application_id,
         is_valid |-> is_valid,
         validation_errors |-> validation_errors,
         validation_warnings |-> Appended(cs, "warnings"),
         validation_summary |->
             [required_fields_complete |-> ~cs[1].invalid,
              business_rules_passed |-> \A i \in 2..Len(cs) : ~cs[i].invalid,
              ready_for_processing |-> is_valid /\ Len(validation_errors) = 0]]

validation_result(application_id, cs) ==
    LET validation_errors == Appended(cs, "errors")
        is_valid == \A i \in 1..Len(cs) : ~cs[i].invalid
    IN  [application_id |-> application_id,
         is_valid |-> is_valid,
         validation_errors |-> validation_errors,
         validation_warnings |-> Appended(cs, "warnings"),
         validation_summary |->
             [required_fields_complete |-> ~cs[1].invalid,
              business_rules_passed |-> Len(validation_errors) = 0,
              ready_for_processing |-> is_valid /\ Len(validation_errors) = 0]]

validate_loan_application(ctx) ==
    IF ctx.kind = "unparsable"
    THEN Except("Failed to validate loan application")
    ELSE IF ctx.kind = "noargs"
    THEN Error("No arguments provided")
    ELSE LET args == ctx.args
             loan_amount == GetDefault(args.loan_amount, Num(0))
             credit_score == GetDefault(args.credit_score, Num(0))
             annual_income == GetDefault(args.annual_income, Num(0))
             employment_years == GetDefault(args.employment_years, Num(0))
         \* TypeError on comparing None or a string with a number
         IN  IF ~IsNum(loan_amount) \/ ~IsNum(credit_score)
                \/ ~IsNum(annual_income) \/ ~IsNum(employment_years)
             THEN Except("Failed to validate loan application")
             ELSE validation_result(Get(args.application_id),
                                    checks(args, loan_amount.n, credit_score.n,
                                           annual_income.n, employment_years.n))

(***************************************************************************)
(* get_special_vehicles.  Ratios in hundredths, the interest-rate          *)
(* adjustment in parts per million.                                        *)
(***************************************************************************)
special_vehicles ==
    [luxury_vehicle |->
        [category |-> "luxury",
         financing_terms |->
             [max_loan_term_months |-> 60,
              max_ltv_ratio |-> 75,
              min_down_payment_percent |-> 25,
              interest_rate_adjustment |-> 5000,
              special_requirements |->
                  <<"Higher insurance coverage required",
                    "Vehicle appraisal required">>],
         eligible_makes |->
             <<"BMW", "Mercedes-Benz", "Audi", "Lexus", "Porsche",
               "Tesla Model S", "Tesla Model X">>,
         msrp_threshold |-> 60000],
     commercial_vehicle |->
        [category |-> "commercial",
         financing_terms |->
             [max_loan_term_months |-> 48,
              max_ltv_ratio |-> 70,
              min_down_payment_percent |-> 30,
              interest_rate_adjustment |-> 10000,
              special_requirements |->
                  <<"Business license verification",
                    "Commercial insurance required",
                    "Income verification from business">>],
         eligible_types |->
             <<"Pickup trucks over 1-ton", "Delivery vans", "Box trucks",
               "Flatbed trucks">>,
         additional_documentation |->
             <<"Business tax returns", "Commercial use affidavit">>],
     electric_vehicle |->
        [category |-> "green",
         financing_terms |->
             [max_loan_term_months |-> 72,
              max_ltv_ratio |-> 85,
              min_down_payment_percent |-> 15,
              interest_rate_adjustment |-> -2500,
              special_incentives |->
                  <<"Green vehicle discount", "Potential government rebates">>],
         eligible_makes |->
             <<"Tesla", "Nissan Leaf", "Chevrolet Bolt", "Ford Mustang Mach-E",
               "Rivian">>,
         special_considerations |->
             <<"Battery warranty coverage",
               "Charging infrastructure assessment">>],
     classic_vehicle |->
        [category |-> "specialty",
         financing_terms |->
             [max_loan_term_months |-> 48,
              max_ltv_ratio |-> 65,
              min_down_payment_percent |-> 35,
              interest_rate_adjustment |-> 15000,
              special_requirements |->
                  <<"Professional appraisal required", "Specialized insurance",
                    "Garage storage requirement">>],
         age_requirement |-> "25+ years old",
         additional_documentation |->
             <<"Classic car appraisal", "Proof of secure storage">>]]

standard_vehicle(vehicle_type) ==
    [vehicle_type |-> vehicle_type,
     category |-> "standard",
     financing_terms |->
         [max_loan_term_months |-> 72,
          max_ltv_ratio |-> 85,
          min_down_payment_percent |-> 10,
          interest_rate_adjustment |-> 0,
          special_requirements |-> <<>>],
     message |-> "Standard financing terms apply"]

\* vehicle_info["vehicle_type"] = vehicle_type
WithVehicleType(vehicle_info, vehicle_type) ==
    [k \in DOMAIN vehicle_info \cup {"vehicle_type"} |->
        IF k = "vehicle_type" THEN vehicle_type ELSE vehicle_info[k]]

\* mutant: the table searched with the vehicle type as it was written
vehicle_info_exact_case(vehicle_type) ==
    IF vehicle_type.s \in DOMAIN special_vehicles
    THEN WithVehicleType(special_vehicles[vehicle_type.s], vehicle_type)
    ELSE standard_vehicle(vehicle_type)

vehicle_info(vehicle_type) ==
    IF Lower(vehicle_type.s) \in DOMAIN special_vehicles
    THEN WithVehicleType(special_vehicles[Lower(vehicle_type.s)], vehicle_type)
    ELSE standard_vehicle(vehicle_type)

get_special_vehicles(ctx) ==
    IF ctx.kind = "unparsable"
    THEN Except("Failed to retrieve special vehicle information")
    ELSE IF ctx.kind = "noargs"
    THEN Error("No arguments provided")
    ELSE LET vehicle_type == Get(ctx.args.vehicle_type)
         IN  IF ~Truthy(vehicle_type)
             THEN Error("Vehicle type is required")
             \* AttributeError on .lower() of a number
             ELSE IF ~IsStr(vehicle_type)
             THEN Except("Failed to retrieve special vehicle information")
             ELSE vehicle_info(vehicle_type)

(***************************************************************************)
(* save_loan_decision.  hash(application_id) of a string differs from one  *)
(* interpreter process to the next, so it is an input of the call; the     *)
(* hash of a small integer is the integer.                                 *)
(***************************************************************************)
hash(application_id, string_hash) ==
    IF IsNum(application_id) THEN application_id.n ELSE string_hash

\* f"LOAN_DEC_{application_id}_{hash(application_id) % 10000:04d}"
record_id(application_id, string_hash) ==
    [application_id |-> application_id,
     digits |-> hash(application_id, string_hash) % 10000]

save_result(application_id, decision, reason, string_hash) ==
    [application_id |-> application_id,
     decision |-> decision,
     reason |-> reason,
     saved_at |-> "2024-09-26T12:00:00Z",
     audit_trail |->
         [action |-> "loan_decision_saved",
          user |-> "AI_System",
          timestamp |-> "2024-09-26T12:00:00Z",
          metadata |->
              [decision_engine |-> "AI_Underwriter_v1.0",
               processing_time_ms |-> 1250,
               confidence_score |-> 92]],
     status |-> "success",
     record_id |-> record_id(application_id, string_hash)]

save_loan_decision(ctx, string_hash) ==
    IF ctx.kind = "unparsable"
    THEN Except("Failed to save loan decision")
    ELSE IF ctx.kind = "noargs"
    THEN Error("No arguments provided")
    ELSE LET application_id == Get(ctx.args.application_id)
             decision == Get(ctx.args.decision)
             reason == Get(ctx.args.reason)
         IN  IF ~All(<<application_id, decision, reason>>)
             THEN Error("application_id, decision, and reason are required")
             ELSE save_result(application_id, decision, reason, string_hash)

(***************************************************************************)
(* Requests.  Each tool receives the properties its toolProperties list    *)
(* declares, each present or absent, with values on both sides of every    *)
(* band edge of the handlers.                                              *)
(***************************************************************************)
MaxLoanSteps == 5

ApplicationIds == {Absent, Str("app1")}
CustomerIds == {Absent, Str("c1")}
LoanAmounts ==
    {Absent, Str("abc"), Num(-5), Num(0), Num(20000), Num(30000), Num(60000),
     Num(90000)}
        \cup {Num(25000 * k) : k \in 1..MaxLoanSteps}
CreditScores ==
    {Absent, Str("good"), Num(599), Num(600), Num(610), Num(650), Num(700),
     Num(750), Num(760), Num(780), Num(900)}
VehicleTypes ==
    {Absent, Null, Num(4), Str("new_car"), Str("NEW_CAR"), Str("used_car"),
     Str("luxury_vehicle"), Str("commercial_vehicle"), Str("electric_vehicle"),
     Str("classic_vehicle"), Str("truck")}
AnnualIncomes ==
    {Absent, Null, Num(0), Num(5000), Num(20000), Num(80000)}

RiskProfileContexts ==
    {Unparsable, NoArguments}
        \cup {Arguments([NoArgs EXCEPT !.customer_id = c, !.loan_amount = l,
                                       !.credit_score = s]) :
                c \in CustomerIds, l \in LoanAmounts, s \in CreditScores}

LoanTermsContexts ==
    {Unparsable, NoArguments}
        \cup {Arguments([NoArgs EXCEPT !.loan_amount = l, !.credit_score = s,
                                       !.vehicle_type = v]) :
                l \in LoanAmounts, s \in CreditScores, v \in VehicleTypes}

LoanRiskContexts ==
    {Unparsable, NoArguments}
        \cup {Arguments([NoArgs EXCEPT !.application_id = a, !.customer_id = c,
                                       !.loan_amount = l, !.credit_score = s,
                                       !.vehicle_type = v]) :
                a \in ApplicationIds, c \in CustomerIds, l \in LoanAmounts,
                s \in CreditScores, v \in VehicleTypes}

LoanDecisionContexts ==
    {Unparsable, NoArguments}
        \cup {Arguments([NoArgs EXCEPT !.application_id = a, !.customer_id = c,
                                       !.loan_amount = l, !.credit_score = s,
                                       !.vehicle_type = v, !.annual_income = i]) :
                a \in ApplicationIds, c \in CustomerIds, l \in LoanAmounts,
                s \in CreditScores, v \in VehicleTypes, i \in AnnualIncomes}

\* the values of an application under validation, on both sides of every
\* edge of its range rules
ValidatedVehicleTypes == {Absent, Str("new_car")}
ValidatedLoanAmounts ==
    {Absent, Str("abc"), Num(-5), Num(0), Num(20000), Num(50000), Num(100000)}
        \cup {Num(25000 * MaxLoanSteps)}
ValidatedCreditScores ==
    {Absent, Num(299), Num(300), Num(599), Num(600), Num(850), Num(900)}
ValidatedIncomes ==
    {Absent, Null, Num(0), Num(20000), Num(30000), Num(80000)}
EmploymentYears == {Absent, Num(-1), Num(0), Num(1), Num(2)}

ValidationContexts ==
    {Unparsable, NoArguments}
        \cup {Arguments([NoArgs EXCEPT !.application_id = a, !.customer_id = c,
                                       !.loan_amount = l, !.vehicle_type = v,
                                       !.credit_score = s, !.annual_income = i,
                                       !.employment_years = e]) :
                a \in ApplicationIds, c \in CustomerIds,
                l \in ValidatedLoanAmounts, v \in ValidatedVehicleTypes,
                s \in ValidatedCreditScores, i \in ValidatedIncomes,
                e \in EmploymentYears}

SpecialVehicleContexts ==
    {Unparsable, NoArguments}
        \cup {Arguments([NoArgs EXCEPT !.vehicle_type = v]) :
                v \in VehicleTypes \cup {Str(""), Str("Electric_Vehicle")}}

MaxHash == 3
StringHashes == 0..MaxHash
SavedApplicationIds == ApplicationIds \cup {Num(10007)}
Decisions == {Absent, Str("approved")}
Reasons == {Absent, Str(""), Str("Strong credit profile")}

SaveDecisionContexts ==
    {Unparsable, NoArguments}
        \cup {Arguments([NoArgs EXCEPT !.application_id = a, !.decision = d,
                                       !.reason = r]) :
                a \in SavedApplicationIds, d \in Decisions, r \in Reasons}

ContextsOf(t) ==
    CASE t = "get_risk_profile" -> RiskProfileContexts
      [] t = "calculate_loan_terms" -> LoanTermsContexts
      [] t = "evaluate_loan_risk" -> LoanRiskContexts
      [] t = "generate_loan_decision" -> LoanDecisionContexts
      [] t = "validate_loan_application" -> ValidationContexts
      [] t = "get_special_vehicles" -> SpecialVehicleContexts
      [] t = "save_loan_decision" -> SaveDecisionContexts

Tools ==
    {"get_risk_profile", "calculate_loan_terms", "evaluate_loan_risk",
     "generate_loan_decision", "validate_loan_application",
     "get_special_vehicles", "save_loan_decision"}

NoResult == [pending |-> TRUE]

(***************************************************************************)
(* The state machine: a request is received, its handler returns.          *)
(***************************************************************************)
\* string_hashes: the values hash() of a string can take in the worker
\* process that serves the request; the interpreter fixes one when it starts
Init ==
    /\ tool \in Tools
    /\ context \in ContextsOf(tool)
    /\ pc = "received"
    /\ result = NoResult
    /\ history = <<>>
    /\ string_hashes = StringHashes

Returning(r) ==
    /\ pc = "received"
    /\ pc' = "returned"
    /\ result' = r
    /\ UNCHANGED <<tool, context, history>>

Return(r) == Returning(r) /\ UNCHANGED string_hashes

GetRiskProfile == tool = "get_risk_profile" /\ Return(get_risk_profile(context))

CalculateLoanTerms ==
    tool = "calculate_loan_terms" /\ Return(calculate_loan_terms(context))

EvaluateLoanRisk ==
    tool = "evaluate_loan_risk" /\ Return(evaluate_loan_risk(context))

GenerateLoanDecision ==
    tool = "generate_loan_decision" /\ Return(generate_loan_decision(context))

ValidateLoanApplication ==
    tool = "validate_loan_application" /\ Return(validate_loan_application(context))

GetSpecialVehicles ==
    tool = "get_special_vehicles" /\ Return(get_special_vehicles(context))

SaveLoanDecision ==
    /\ tool = "save_loan_decision"
    /\ \E string_hash \in string_hashes :
            /\ Returning(save_loan_decision(context, string_hash))
            /\ string_hashes' = {string_hash}

Next ==
    \/ GetRiskProfile
    \/ CalculateLoanTerms
    \/ EvaluateLoanRisk
    \/ GenerateLoanDecision
    \/ ValidateLoanApplication
    \/ GetSpecialVehicles
    \/ SaveLoanDecision

Spec == Init /\ [][Next]_vars

(***************************************************************************)
(* Sessions: up to MaxCalls requests one after the other, each an          *)
(* invocation of its trigger, over a few applications: one that validates, *)
(* one with a credit score above 850, one without employment_years.        *)
(***************************************************************************)
MaxCalls == 2

Application(credit_score) ==
    [NoArgs EXCEPT !.application_id = Str("app1"), !.customer_id = Str("c1"),
                   !.loan_amount = Num(20000), !.credit_score = Num(credit_score),
                   !.vehicle_type = Str("new_car"), !.annual_income = Num(80000)]

Employed(application, years) == [application EXCEPT !.employment_years = years]

Only(application, fields) ==
    [k \in ArgNames |-> IF k \in fields THEN application[k] ELSE Absent]

SessionApplications == {Application(760), Application(900)}

SessionContextsOf(t) ==
    CASE t = "validate_loan_application" ->
            {Arguments(Employed(a, Num(2))) : a \in SessionApplications}
                \cup {Arguments(Application(760))}
      [] t = "get_risk_profile" ->
            {Arguments(Only(a, {"customer_id", "loan_amount", "credit_score"})) :
                a \in SessionApplications}
      [] t = "calculate_loan_terms" ->
            {Arguments(Only(a, {"loan_amount", "credit_score", "vehicle_type"})) :
                a \in SessionApplications}
      [] t = "evaluate_loan_risk" ->
            {Arguments(Only(a, ArgNames \ {"annual_income"})) :
                a \in SessionApplications}
      [] t = "generate_loan_decision" ->
            {Arguments(a) : a \in SessionApplications} \cup {Unparsable}
      [] t = "get_special_vehicles" ->
            {Arguments([NoArgs EXCEPT !.vehicle_type = v]) :
                v \in {Str("luxury_vehicle"), Str("truck")}}
      [] t = "save_loan_decision" ->
            {Arguments([NoArgs EXCEPT !.application_id = a,
                                      !.decision = Str("approved"),
                                      !.reason = r]) :
                a \in {Str("app1")}, r \in Reasons \ {Absent}}

SessionInit ==
    /\ tool \in Tools
    /\ context \in SessionContextsOf(tool)
    /\ pc = "received"
    /\ result = NoResult
    /\ history = <<>>
    /\ string_hashes = StringHashes

Call(t, ctx, r) == [tool |-> t, context |-> ctx, result |-> r]

\* the next invocation of a trigger, once the call in hand has returned
NextCall ==
    /\ pc = "returned"
    /\ Len(history) + 1 < MaxCalls
    /\ history' = Append(history, Call(tool, context, result))
    /\ tool' \in Tools
    /\ context' \in SessionContextsOf(tool')
    /\ pc' = "received"
    /\ result' = NoResult
    /\ UNCHANGED string_hashes

\* the worker process is replaced between two calls: the new interpreter
\* hashes strings with a seed of its own
Restart ==
    /\ pc = "returned"
    /\ Len(history) + 1 < MaxCalls
    /\ string_hashes # StringHashes
    /\ string_hashes' = StringHashes
    /\ UNCHANGED <<tool, context, pc, result, history>>

SessionNext == Next \/ NextCall \/ Restart

SessionSpec == SessionInit /\ [][SessionNext]_vars

(***************************************************************************)
(* Properties                                                              *)
(***************************************************************************)
Returned(t) == pc = "returned" /\ tool = t
Succeeded(t) == Returned(t) /\ ~IsError(result)
Arg(name) == context.args[name]
Approved == {"approved", "approved_with_conditions"}

\* C1: in every non-error result of generate_loan_decision the decision is
\* fixed by approval_score alone: >= 80 approved, 60..79
\* approved_with_conditions, 40..59 pending_review, below 40 rejected.
C1_DecisionOfScore(score) ==
    IF score >= 80 THEN "approved"
    ELSE IF score >= 60 THEN "approved_with_conditions"
    ELSE IF score >= 40 THEN "pending_review"
    ELSE "rejected"

C1_DecisionFollowsScore ==
    Succeeded("generate_loan_decision")
        => result.decision = C1_DecisionOfScore(result.approval_score)

C1_Witness ==
    /\ Succeeded("generate_loan_decision")
    /\ result.approval_score = 60
    /\ result.decision = "approved_with_conditions"

\* C2: in every non-error result of generate_loan_decision loan_terms is
\* non-null exactly when the decision is approved or approved_with_conditions.
C2_TermsIffApproved ==
    Succeeded("generate_loan_decision")
        => ((result.loan_terms # None) <=> (result.decision \in Approved))

C2_Witness ==
    /\ Succeeded("generate_loan_decision")
    /\ result.decision = "pending_review"
    /\ result.loan_terms = None

\* C3: whenever generate_loan_decision returns approved or
\* approved_with_conditions, its loan_terms have loan_term_months 60 and the
\* interest_rate_percent equal to the interest_rate calculate_loan_terms
\* returns for the same amount, credit score and vehicle type.
C3_CalculatorResult ==
    calculate_loan_terms(
        Arguments([NoArgs EXCEPT !.loan_amount = Arg("loan_amount"),
                                 !.credit_score = Arg("credit_score"),
                                 !.vehicle_type = Arg("vehicle_type")]))

C3_TermsFollowCalculator ==
    (Succeeded("generate_loan_decision") /\ result.decision \in Approved)
        => /\ result.loan_terms.loan_term_months = 60
           /\ ~IsError(C3_CalculatorResult)
           /\ result.loan_terms.interest_rate_percent
                = C3_CalculatorResult.loan_terms.interest_rate

\* C4: in every non-error result of generate_loan_decision approval_score is
\* the sum of the credit band (>= 750: 40, >= 700: 30, >= 650: 20, >= 600: 10,
\* else 0), the loan-to-income band (income > 0 only; ratio <= 3: 25, <= 4: 15,
\* else 0), the amount band (<= 30000: 20, <= 60000: 15, <= 100000: 5, else 0)
\* and the vehicle bonus (table, 5 for unrecognized types), and lies in 0..100.
C4_Credit == Arg("credit_score").n
C4_Amount == Arg("loan_amount").n
C4_Income == GetDefault(Arg("annual_income"), Num(0)).n
C4_Vehicle == Lower(GetDefault(Arg("vehicle_type"), Str("standard")).s)

C4_CreditBand ==
    IF C4_Credit >= 750 THEN 40
    ELSE IF C4_Credit >= 700 THEN 30
    ELSE IF C4_Credit >= 650 THEN 20
    ELSE IF C4_Credit >= 600 THEN 10
    ELSE 0

C4_IncomeBand ==
    IF C4_Income <= 0 THEN 0
    ELSE IF C4_Amount <= 3 * C4_Income THEN 25
    ELSE IF C4_Amount <= 4 * C4_Income THEN 15
    ELSE 0

C4_AmountBand ==
    IF C4_Amount <= 30000 THEN 20
    ELSE IF C4_Amount <= 60000 THEN 15
    ELSE IF C4_Amount <= 100000 THEN 5
    ELSE 0

C4_VehicleBand ==
    IF C4_Vehicle \in DOMAIN vehicle_bonuses THEN vehicle_bonuses[C4_Vehicle] ELSE 5

C4_ScoreIsSumOfBands ==
    Succeeded("generate_loan_decision")
        => /\ result.approval_score
                = C4_CreditBand + C4_IncomeBand + C4_AmountBand + C4_VehicleBand
           /\ result.approval_score \in 0..100

C4_Witness ==
    /\ Succeeded("generate_loan_decision")
    /\ Arg("credit_score") = Num(610)
    /\ Arg("annual_income") = Absent
    /\ Arg("vehicle_type") = Str("truck")
    /\ result.approval_score = 35

\* C5: conditions and next_steps of generate_loan_decision are the documented
\* literals of the decision, in order; approved has both lists empty.
C5_Conditions(decision) ==
    IF decision = "approved_with_conditions"
    THEN <<"Income verification required", "Vehicle appraisal required",
           "Insurance coverage confirmation needed">>
    ELSE <<>>

C5_NextSteps(decision) ==
    CASE decision = "approved_with_conditions" ->
            <<"Submit required documentation", "Schedule vehicle inspection",
              "Finalize insurance coverage">>
      [] decision = "pending_review" ->
            <<"Application forwarded to human underwriter",
              "Additional documentation may be requested",
              "Decision expected within 2-3 business days">>
      [] decision = "rejected" ->
            <<"Consider reapplying after improving credit score",
              "Explore co-signer options", "Consider smaller loan amount">>
      [] decision = "approved" -> <<>>

C5_ListsAreTheLiterals ==
    Succeeded("generate_loan_decision")
        => /\ result.conditions = C5_Conditions(result.decision)
           /\ result.next_steps = C5_NextSteps(result.decision)

C5_Witness ==
    /\ Succeeded("generate_loan_decision")
    /\ result.decision = "pending_review"
    /\ Len(result.next_steps) = 3
    /\ result.conditions = <<>>

\* C6: in every non-error result of get_risk_profile risk_score is the credit
\* points (>= 750: 20, >= 700: 15, >= 650: 10, else 5) plus the amount points
\* (<= 30000: 15, <= 60000: 10, else 5), at most 35, and overall_risk_level is
\* low from 30, medium from 20, high below; customer c1 with amount 90000 and
\* credit score 610 gets risk_score 10 and level high.
C6_CreditPoints ==
    IF Arg("credit_score").n >= 750 THEN 20
    ELSE IF Arg("credit_score").n >= 700 THEN 15
    ELSE IF Arg("credit_score").n >= 650 THEN 10
    ELSE 5

C6_AmountPoints ==
    IF Arg("loan_amount").n <= 30000 THEN 15
    ELSE IF Arg("loan_amount").n <= 60000 THEN 10
    ELSE 5

C6_ScenarioB ==
    /\ Returned("get_risk_profile")
    /\ context = Arguments([NoArgs EXCEPT !.customer_id = Str("c1"),
                                          !.loan_amount = Num(90000),
                                          !.credit_score = Num(610)])

C6_RiskScoreAndLevel ==
    /\ Succeeded("get_risk_profile")
        => /\ result.risk_assessment.risk_score = C6_CreditPoints + C6_AmountPoints
           /\ result.risk_assessment.risk_score <= 35
           /\ result.risk_assessment.overall_risk_level
                = IF result.risk_assessment.risk_score >= 30 THEN "low"
                  ELSE IF result.risk_assessment.risk_score >= 20 THEN "medium"
                  ELSE "high"
    /\ C6_ScenarioB
        => /\ ~IsError(result)
           /\ result.risk_assessment.risk_score = 10
           /\ result.risk_assessment.overall_risk_level = "high"

C6_Witness ==
    /\ C6_ScenarioB
    /\ ~IsError(result)
    /\ result.risk_assessment.risk_score = 10

\* C7: in every non-error result of evaluate_loan_risk overall_risk_score is
\* the credit factor (>= 750: 40, >= 700: 30, >= 650: 20, else 10) plus the
\* amount factor (<= 25000: 35, <= 50000: 25, <= 75000: 15, else 5) plus the
\* vehicle factor (table, at most 25), at most 100, and its band fixes level,
\* recommendation and confidence: >= 80 low/approve/0.95, >= 60
\* medium/approve_with_conditions/0.80, >= 40 medium_high/manual_review/0.60,
\* else high/reject/0.85.
C7_CreditFactor ==
    IF Arg("credit_score").n >= 750 THEN 40
    ELSE IF Arg("credit_score").n >= 700 THEN 30
    ELSE IF Arg("credit_score").n >= 650 THEN 20
    ELSE 10

C7_AmountFactor ==
    IF Arg("loan_amount").n <= 25000 THEN 35
    ELSE IF Arg("loan_amount").n <= 50000 THEN 25
    ELSE IF Arg("loan_amount").n <= 75000 THEN 15
    ELSE 5

C7_VehicleFactor ==
    DictGet(vehicle_risk_weights,
            Lower(GetDefault(Arg("vehicle_type"), Str("standard")).s), 18)

C7_Band(score) ==
    IF score >= 80 THEN <<"low", "approve", 95>>
    ELSE IF score >= 60 THEN <<"medium", "approve_with_conditions", 80>>
    ELSE IF score >= 40 THEN <<"medium_high", "manual_review", 60>>
    ELSE <<"high", "reject", 85>>

C7_ScoreAndRecommendation ==
    Succeeded("evaluate_loan_risk")
        => /\ result.risk_factor_breakdown.overall_risk_score
                = C7_CreditFactor + C7_AmountFactor + C7_VehicleFactor
           /\ C7_VehicleFactor <= 25
           /\ result.risk_factor_breakdown.overall_risk_score <= 100
           /\ result.evaluation_summary.risk_score
                = result.risk_factor_breakdown.overall_risk_score
           /\ <<result.evaluation_summary.overall_risk_level,
                result.evaluation_summary.recommendation,
                result.evaluation_summary.confidence_level>>
                = C7_Band(result.evaluation_summary.risk_score)

C7_Witness ==
    /\ Succeeded("evaluate_loan_risk")
    /\ result.evaluation_summary.risk_score = 23
    /\ result.evaluation_summary.recommendation = "reject"
    /\ result.evaluation_summary.confidence_level = 85

\* C8: in every non-error result of calculate_loan_terms the base rate is
\* fixed by the credit tier (>= 750: 3.5%, >= 700: 4.5%, >= 650: 6.5%, else
\* 8.5%), the final rate is the base rate plus the vehicle type's adjustment,
\* final_rate_percent = base_rate_percent + vehicle_adjustment_percent, and
\* final_rate_percent = loan_terms.interest_rate.
C8_BaseRatePercent ==
    IF Arg("credit_score").n >= 750 THEN 3500
    ELSE IF Arg("credit_score").n >= 700 THEN 4500
    ELSE IF Arg("credit_score").n >= 650 THEN 6500
    ELSE 8500

C8_Adjustment ==
    DictGet(rate_adjustments,
            Lower(GetDefault(Arg("vehicle_type"), Str("standard")).s), 0)

C8_RateBreakdown ==
    Succeeded("calculate_loan_terms")
        => /\ result.rate_breakdown.base_rate_percent = C8_BaseRatePercent
           /\ result.loan_terms.interest_rate_decimal
                = 10 * C8_BaseRatePercent + C8_Adjustment
           /\ result.rate_breakdown.final_rate_percent
                = result.rate_breakdown.base_rate_percent
                    + result.rate_breakdown.vehicle_adjustment_percent
           /\ result.rate_breakdown.final_rate_percent
                = result.loan_terms.interest_rate

C8_Witness ==
    /\ Succeeded("calculate_loan_terms")
    /\ Arg("vehicle_type") = Str("electric_vehicle")
    /\ result.rate_breakdown.base_rate_percent = 6500
    /\ result.rate_breakdown.vehicle_adjustment_percent = -250
    /\ result.loan_terms.interest_rate = 6250

\* C9: calculate_loan_terms called with loan_amount 25000, credit_score 780
\* and vehicle_type "new_car" returns interest rate 3.5%, loan term 72 months
\* and a monthly payment that rounds to 385.46 (amended; the claim as stated
\* says 386.51).
C9_ScenarioA ==
    /\ Returned("calculate_loan_terms")
    /\ context = Arguments([NoArgs EXCEPT !.loan_amount = Num(25000),
                                          !.credit_score = Num(780),
                                          !.vehicle_type = Str("new_car")])

C9_ScenarioATerms ==
    C9_ScenarioA
        => /\ ~IsError(result)
           /\ result.loan_terms.interest_rate = 3500
           /\ result.loan_terms.loan_term_months = 72
           /\ result.loan_terms.monthly_payment = 38546

\* C9 as stated: the monthly payment rounds to 386.51.
C9_ScenarioATermsAsStated ==
    C9_ScenarioA
        => /\ ~IsError(result)
           /\ result.loan_terms.interest_rate = 3500
           /\ result.loan_terms.loan_term_months = 72
           /\ result.loan_terms.monthly_payment = 38651

C9_Witness ==
    /\ C9_ScenarioA
    /\ ~IsError(result)
    /\ result.loan_terms.loan_term_months = 72
    /\ result.loan_terms.monthly_payment = 38546

\* C10: generate_loan_decision called with {loan_amount: 20000, credit_score:
\* 760, annual_income: 80000, vehicle_type: "electric_vehicle"} together with
\* a non-empty application_id and customer_id computes a loan-to-income ratio
\* of 0.25 (band <= 3) and returns decision "approved" (amended; the claim as
\* stated passes the four fields alone).
C10_ScenarioC ==
    /\ Returned("generate_loan_decision")
    /\ context.kind = "ok"
    /\ Arg("loan_amount") = Num(20000)
    /\ Arg("credit_score") = Num(760)
    /\ Arg("annual_income") = Num(80000)
    /\ Arg("vehicle_type") = Str("electric_vehicle")

C10_ScenarioCApproved ==
    (C10_ScenarioC /\ Truthy(Arg("application_id")) /\ Truthy(Arg("customer_id")))
        => /\ ~IsError(result)
           /\ result.decision_factors[2]
                = Factor("Favorable loan-to-income ratio", Num(2))
           /\ 100 * Arg("loan_amount").n = 25 * Arg("annual_income").n
           /\ result.decision = "approved"

\* C10 as stated: the argument map holds the four fields and nothing else.
C10_ScenarioCApprovedAsStated ==
    (C10_ScenarioC /\ Arg("application_id") = Absent /\ Arg("customer_id") = Absent)
        => /\ ~IsError(result)
           /\ result.decision = "approved"

C10_Witness ==
    /\ C10_ScenarioC
    /\ Arg("application_id") = Str("app1")
    /\ Arg("customer_id") = Str("c1")
    /\ ~IsError(result)
    /\ result.approval_score = 97
    /\ result.decision = "approved"

Validated == Succeeded("validate_loan_application")

\* C11: in every result of validate_loan_application, is_valid is false
\* exactly when validation_errors holds at least one error,
\* ready_for_processing is true exactly when is_valid is true and
\* validation_errors is empty, and a result that holds warnings and no error
\* has is_valid true.
C11_ValidIffNoError ==
    Validated
        => /\ ~result.is_valid <=> Len(result.validation_errors) >= 1
           /\ result.validation_summary.ready_for_processing
                <=> (result.is_valid /\ result.validation_errors = <<>>)
           /\ (result.validation_warnings # <<>> /\ result.validation_errors = <<>>)
                => result.is_valid

C11_Witness ==
    /\ Validated
    /\ Len(result.validation_warnings) >= 2
    /\ result.validation_errors = <<>>
    /\ result.is_valid
    /\ result.validation_summary.ready_for_processing

Contains(list, m) == \E i \in 1..Len(list) : list[i] = m

\* an application whose seven fields are all supplied, with a positive loan
\* amount and income and a credit score of 300..850
C12_OtherwiseValid ==
    /\ context.kind = "ok"
    /\ Truthy(Arg("application_id"))
    /\ Truthy(Arg("customer_id"))
    /\ Truthy(Arg("vehicle_type"))
    /\ IsNum(Arg("loan_amount")) /\ Arg("loan_amount").n > 0
    /\ IsNum(Arg("credit_score"))
    /\ Arg("credit_score").n >= 300 /\ Arg("credit_score").n <= 850
    /\ IsNum(Arg("annual_income")) /\ Arg("annual_income").n > 0

\* C12: validate_loan_application given all seven fields, employment_years = 0
\* and the other fields valid reports no validation error, only the
\* short-employment warning, and is_valid = true.
C12_ZeroEmploymentYearsIsValid ==
    (Returned("validate_loan_application") /\ C12_OtherwiseValid
        /\ Arg("employment_years") = Num(0))
        => /\ ~IsError(result)
           /\ result.validation_errors = <<>>
           /\ Contains(result.validation_warnings,
                       Msg("Short employment history - may require additional verification", <<>>))
           /\ result.is_valid

\* the number a range rule of validate_loan_application sees: args.get(k, 0)
Given(name) == GetDefault(Arg(name), Num(0)).n

LoanAmountError == Msg("Loan amount must be greater than 0", <<>>)
CreditScoreError == Msg("Credit score must be between 300 and 850", <<>>)
AnnualIncomeError == Msg("Annual income must be greater than 0", <<>>)
EmploymentYearsError == Msg("Employment years cannot be negative", <<>>)

ReportsMissing(field) ==
    \E i \in 1..Len(result.validation_errors) :
        /\ result.validation_errors[i].text = "Missing required fields"
        /\ Contains(result.validation_errors[i].detail, Str(field))

C13_Scenario ==
    /\ Validated
    /\ Arg("loan_amount") = Num(-5)
    /\ Arg("credit_score") = Num(900)
    /\ Arg("annual_income") = Num(0)
    /\ Arg("employment_years") = Num(-1)

\* C13: in every result of validate_loan_application each of the four range
\* errors (loan amount <= 0, credit score outside 300..850, income <= 0,
\* employment years < 0) is present exactly when its own rule fails, an
\* absent field counting as 0; loan_amount -5, credit_score 900,
\* annual_income 0 and employment_years -1 yield all four errors with
\* is_valid and ready_for_processing false; a map without loan_amount yields
\* the missing-fields error and the loan-amount range error.
C13_RangeRulesIndependent ==
    Validated
        => /\ Contains(result.validation_errors, LoanAmountError)
                <=> Given("loan_amount") <= 0
           /\ Contains(result.validation_errors, CreditScoreError)
                <=> (Given("credit_score") < 300 \/ Given("credit_score") > 850)
           /\ Contains(result.validation_errors, AnnualIncomeError)
                <=> Given("annual_income") <= 0
           /\ Contains(result.validation_errors, EmploymentYearsError)
                <=> Given("employment_years") < 0
           /\ C13_Scenario
                => /\ ~result.is_valid
                   /\ ~result.validation_summary.ready_for_processing
           /\ Arg("loan_amount") = Absent
                => /\ ReportsMissing("loan_amount")
                   /\ Contains(result.validation_errors, LoanAmountError)

C13_Witness ==
    /\ C13_Scenario
    /\ Arg("application_id") = Absent
    /\ Arg("customer_id") = Absent
    /\ Arg("vehicle_type") = Absent
    /\ Len(result.validation_errors) = 5
    /\ ReportsMissing("annual_income")
    /\ SubSeq(result.validation_errors, 2, 5)
        = <<LoanAmountError, CreditScoreError, AnnualIncomeError,
            EmploymentYearsError>>
    /\ ~result.is_valid

HasDebtToIncomeMessage(list) ==
    \E i \in 1..Len(list) : list[i].text = "High debt-to-income ratio"

\* C14: validate_loan_application adds the debt-to-income warning exactly
\* when loan_amount > 0, annual_income > 0 and
\* (loan_amount * 0.02 * 12) / annual_income > 0.4; the message is never
\* among the errors, and is_valid is decided by the required fields and the
\* four range rules alone.
C14_DebtToIncomeWarning ==
    Validated
        => /\ HasDebtToIncomeMessage(result.validation_warnings)
                <=> /\ Given("loan_amount") > 0
                    /\ Given("annual_income") > 0
                    /\ 24 * Given("loan_amount") > 40 * Given("annual_income")
           /\ ~HasDebtToIncomeMessage(result.validation_errors)
           /\ result.is_valid
                <=> /\ \A i \in 1..Len(required_fields) :
                            Truthy(Arg(required_fields[i]))
                    /\ Given("loan_amount") > 0
                    /\ Given("credit_score") >= 300
                    /\ Given("credit_score") <= 850
                    /\ Given("annual_income") > 0
                    /\ Given("employment_years") >= 0

C14_Witness ==
    /\ Validated
    /\ Arg("loan_amount") = Num(50000)
    /\ Arg("annual_income") = Num(20000)
    /\ Contains(result.validation_warnings,
                Msg("High debt-to-income ratio", <<Num(6000)>>))
    /\ result.validation_errors = <<>>
    /\ result.is_valid

\* the fields each scoring handler requires
RequiredOf(t) ==
    CASE t = "get_risk_profile" -> {"customer_id", "loan_amount", "credit_score"}
      [] t = "calculate_loan_terms" -> {"loan_amount", "credit_score"}
      [] t = "evaluate_loan_risk" ->
            {"application_id", "customer_id", "loan_amount", "credit_score"}
      [] t = "generate_loan_decision" ->
            {"application_id", "customer_id", "loan_amount", "credit_score"}

Scorers == {"calculate_loan_terms", "evaluate_loan_risk", "generate_loan_decision"}

\* a request that is well formed whatever its vehicle type: the required
\* fields hold non-zero numbers and non-empty strings, the income (if any)
\* is a number
WellFormedApartFromVehicle ==
    /\ context.kind = "ok"
    /\ \A f \in RequiredOf(tool) : Truthy(Arg(f))
    /\ IsNum(Arg("loan_amount"))
    /\ IsNum(Arg("credit_score"))
    /\ Arg("annual_income") = Absent \/ IsNum(Arg("annual_income"))

KnownVehicleTypes ==
    {"new_car", "used_car", "luxury_vehicle", "commercial_vehicle",
     "electric_vehicle", "classic_vehicle"}

UnrecognizedVehicleType ==
    \/ Arg("vehicle_type") = Absent
    \/ IsStr(Arg("vehicle_type")) /\ Lower(Arg("vehicle_type").s) \notin KnownVehicleTypes

\* C15: a request of calculate_loan_terms, evaluate_loan_risk or
\* generate_loan_decision whose vehicle_type is omitted or is a string the
\* handler does not list, and which is otherwise well formed, returns no
\* error: the calculator uses adjustment 0 and a 60-month term, the
\* evaluator an 18-point vehicle factor, the decision a 5-point bonus.
C15_UnrecognizedVehicleDefaults ==
    (pc = "returned" /\ tool \in Scorers /\ WellFormedApartFromVehicle
        /\ UnrecognizedVehicleType)
        => /\ ~IsError(result)
           /\ tool = "calculate_loan_terms"
                => /\ result.rate_breakdown.vehicle_adjustment_percent = 0
                   /\ result.loan_terms.interest_rate_decimal
                        = base_rate(Arg("credit_score").n)
                   /\ result.loan_terms.loan_term_months = 60
           /\ tool = "evaluate_loan_risk"
                => result.risk_factor_breakdown.vehicle_type_factor = 18
           /\ tool = "generate_loan_decision"
                => result.approval_score
                     = credit_points(Arg("credit_score").n)
                        + income_points(Arg("loan_amount").n, Given("annual_income"))
                        + amount_points(Arg("loan_amount").n) + 5

C15_Witness ==
    /\ Succeeded("generate_loan_decision")
    /\ Arg("vehicle_type") = Absent
    /\ Arg("credit_score") = Num(760)
    /\ Arg("loan_amount") = Num(20000)
    /\ Arg("annual_income") = Num(80000)
    /\ result.approval_score = 90

\* the request in hand with its vehicle type written in lower case
LowerCased ==
    [context EXCEPT !.args.vehicle_type = Str(Lower(Arg("vehicle_type").s))]

\* what a handler derives from the vehicle type is the same for the request
\* in hand and for the request with the vehicle type in lower case
C16_CaseInsensitive ==
    (pc = "returned" /\ context.kind = "ok" /\ IsStr(Arg("vehicle_type"))
        /\ ~IsError(result))
        => /\ tool = "calculate_loan_terms"
                => /\ result.loan_terms = calculate_loan_terms(LowerCased).loan_terms
                   /\ result.rate_breakdown
                        = calculate_loan_terms(LowerCased).rate_breakdown
           /\ tool = "evaluate_loan_risk"
                => result.risk_factor_breakdown
                     = evaluate_loan_risk(LowerCased).risk_factor_breakdown
           /\ tool = "generate_loan_decision"
                => /\ result.approval_score
                        = generate_loan_decision(LowerCased).approval_score
                   /\ result.loan_terms = generate_loan_decision(LowerCased).loan_terms
           /\ tool = "get_special_vehicles"
                => /\ result.category = get_special_vehicles(LowerCased).category
                   /\ result.financing_terms
                        = get_special_vehicles(LowerCased).financing_terms

\* a vehicle_type that is supplied, whatever its value, leaves a well-formed
\* request without an error
C16_SuppliedVehicleNeverAnError ==
    /\ (pc = "returned" /\ tool \in Scorers /\ WellFormedApartFromVehicle
            /\ Arg("vehicle_type") # Absent)
        => ~IsError(result)
    /\ (Returned("get_special_vehicles") /\ context.kind = "ok"
            /\ Truthy(Arg("vehicle_type")))
        => ~IsError(result)

\* C16: in calculate_loan_terms, evaluate_loan_risk, generate_loan_decision
\* and get_special_vehicles two vehicle_type values that differ only in case
\* yield the same adjustment, term, factor, bonus and financing terms, and no
\* supplied vehicle_type value, a null or a non-string included, turns an
\* otherwise valid request into an error result.
C16_VehicleLookupNeverFails ==
    C16_CaseInsensitive /\ C16_SuppliedVehicleNeverAnError

RequiredFieldsError(t) ==
    CASE t = "get_risk_profile" ->
            Error("customer_id, loan_amount, and credit_score are required")
      [] t = "calculate_loan_terms" ->
            Error("loan_amount and credit_score are required")
      [] t = "evaluate_loan_risk" ->
            Error("application_id, customer_id, loan_amount, and credit_score are required")
      [] t = "generate_loan_decision" ->
            Error("Missing required fields for loan decision")

Supplied(v) == v # Absent /\ v # Null

ScoringTools == Scorers \cup {"get_risk_profile"}

\* a request without one of its required fields gets the error object and
\* nothing else
C17_AbsentFieldIsAnError ==
    (pc = "returned" /\ tool \in ScoringTools
        /\ context.kind = "ok"
        /\ \E f \in RequiredOf(tool) : Arg(f) = Absent)
        => DOMAIN result = {"error"}

\* C17: get_risk_profile, calculate_loan_terms, evaluate_loan_risk and
\* generate_loan_decision return an object with the single key "error" when
\* a required field is absent, and return no missing-field error when all
\* their required fields are supplied.
C17_MissingFieldErrorIffAbsent ==
    /\ C17_AbsentFieldIsAnError
    /\ (pc = "returned" /\ tool \in ScoringTools
            /\ context.kind = "ok"
            /\ \A f \in RequiredOf(tool) : Supplied(Arg(f)))
        => result # RequiredFieldsError(tool)

\* C18: what a call of any of the seven loan tools returns is a normal
\* result or an object with the single key "error"; no exception leaves a
\* handler, whether the context is unparsable, lacks "arguments", or holds a
\* null or a string where a number is expected.
C18_NoExceptionEscapes ==
    pc = "returned"
        => /\ tool \in Tools
           /\ result # Raised
           /\ IsError(result) \/ "error" \notin DOMAIN result

C18_Witness ==
    /\ Returned("validate_loan_application")
    /\ context.kind = "ok"
    /\ Arg("annual_income") = Null
    /\ result = Error("Failed to validate loan application")

OutOfRange ==
    \/ IsNum(Arg("credit_score"))
        /\ (Arg("credit_score").n < 300 \/ Arg("credit_score").n > 850)
    \/ IsNum(Arg("loan_amount")) /\ Arg("loan_amount").n <= 0

\* C19: get_risk_profile, evaluate_loan_risk, calculate_loan_terms and
\* generate_loan_decision given a credit_score outside 300..850 or a
\* loan_amount that is not greater than 0 return an error message and no
\* score, rate or decision.
C19_OutOfRangeRejected ==
    (pc = "returned" /\ tool \in ScoringTools /\ context.kind = "ok"
        /\ OutOfRange)
        => IsError(result)

\* the numbers a set of request values offers to a required field
NumbersIn(values) == {v.n : v \in {w \in values : IsNum(w) /\ Truthy(w)}}

\* the request in hand, scored with another credit score or loan amount
RiskScoreWith(credit_score, loan_amount) == risk_score(credit_score, loan_amount)

ApprovalScoreWith(credit_score, loan_amount) ==
    approval_score(credit_score, loan_amount, Given("annual_income"),
                   GetDefault(Arg("vehicle_type"), Str("standard")).s)

\* C20: with the other inputs fixed, the risk_score of get_risk_profile and
\* the approval_score of generate_loan_decision are no lower for a higher
\* credit_score and no higher for a higher loan_amount.
C20_ScoresMonotone ==
    /\ Succeeded("get_risk_profile")
        => /\ \A c \in NumbersIn(CreditScores) :
                c >= Arg("credit_score").n
                    => RiskScoreWith(c, Arg("loan_amount").n)
                         >= result.risk_assessment.risk_score
           /\ \A l \in NumbersIn(LoanAmounts) :
                l >= Arg("loan_amount").n
                    => RiskScoreWith(Arg("credit_score").n, l)
                         <= result.risk_assessment.risk_score
    /\ Succeeded("generate_loan_decision")
        => /\ \A c \in NumbersIn(CreditScores) :
                c >= Arg("credit_score").n
                    => ApprovalScoreWith(c, Arg("loan_amount").n)
                         >= result.approval_score
           /\ \A l \in NumbersIn(LoanAmounts) :
                l >= Arg("loan_amount").n
                    => ApprovalScoreWith(Arg("credit_score").n, l)
                         <= result.approval_score

C20_Witness ==
    /\ Succeeded("generate_loan_decision")
    /\ Arg("credit_score") = Num(650)
    /\ Arg("loan_amount") = Num(60000)
    /\ Arg("annual_income") = Num(20000)
    /\ ApprovalScoreWith(700, 60000) > result.approval_score
    /\ ApprovalScoreWith(650, 90000) < result.approval_score

\* the calls of the session that have returned, in order
Calls ==
    IF pc = "returned" THEN Append(history, Call(tool, context, result))
    ELSE history

CoreTools ==
    {"validate_loan_application", "get_risk_profile", "evaluate_loan_risk",
     "calculate_loan_terms", "generate_loan_decision"}

SameContextSameResult(tools) ==
    \A i, j \in 1..Len(Calls) :
        (Calls[i].tool \in tools /\ Calls[i].tool = Calls[j].tool
            /\ Calls[i].context = Calls[j].context)
            => Calls[i].result = Calls[j].result

\* what get_special_vehicles returns for a listed vehicle type is the entry
\* of the table as the source writes it, whatever was looked up before
C22_TablesAsWritten ==
    \A i \in 1..Len(Calls) :
        LET c == Calls[i]
            vehicle_type == c.context.args.vehicle_type
        IN  (c.tool = "get_special_vehicles" /\ ~IsError(c.result)
                /\ Lower(vehicle_type.s) \in DOMAIN special_vehicles)
                => /\ c.result.vehicle_type = vehicle_type
                   /\ [k \in DOMAIN special_vehicles[Lower(vehicle_type.s)] |-> c.result[k]]
                        = special_vehicles[Lower(vehicle_type.s)]

\* C22: over every sequence of tool calls, save_loan_decision and
\* get_special_vehicles included, the result of a call is a function of the
\* call's argument map alone (two calls of a tool with the same arguments
\* return the same result), and no call changes the reference tables.
C22_NoCrossCallMemory ==
    SameContextSameResult(Tools) /\ C22_TablesAsWritten

DecisionNames == {"approved", "approved_with_conditions", "pending_review", "rejected"}

\* a call of the session so far that validated the application in hand
ValidatedEarlier(outcome) ==
    \E i \in 1..Len(history) :
        /\ history[i].tool = "validate_loan_application"
        /\ ~IsError(history[i].result)
        /\ history[i].result.is_valid = outcome
        /\ \A k \in {"application_id", "customer_id", "loan_amount", "credit_score"} :
                history[i].context.args[k] = Arg(k)

\* C23: generate_loan_decision returns a decision whenever its four required
\* fields are present (non-empty ids, non-zero numbers), whatever the session
\* called before it: nothing, another tool, or validate_loan_application
\* reporting is_valid = false for the same application.  The decision is the
\* one the approval score dictates.
C23_NoStageEnforced ==
    (Returned("generate_loan_decision") /\ WellFormedApartFromVehicle
        /\ (Arg("vehicle_type") = Absent \/ IsStr(Arg("vehicle_type"))))
        => /\ ~IsError(result)
           /\ result.decision \in DecisionNames
           /\ result.decision = C1_DecisionOfScore(result.approval_score)

C23_Witness ==
    /\ Returned("generate_loan_decision")
    /\ Arg("credit_score") = Num(900)
    /\ ValidatedEarlier(FALSE)
    /\ ~ValidatedEarlier(TRUE)
    /\ ~IsError(result)
    /\ result.decision = "approved"

\* a request that no handler refuses: well formed, its vehicle type a string
\* or omitted
WellFormed ==
    /\ WellFormedApartFromVehicle
    /\ Arg("vehicle_type") = Absent \/ IsStr(Arg("vehicle_type"))

\* C24: in every non-error result of calculate_loan_terms and in every
\* non-null loan_terms of generate_loan_decision the loan term in months and
\* the interest rate are strictly positive, and no well-formed request fails
\* on a division by zero in the amortization formula.
C24_TermAndRatePositive ==
    /\ Succeeded("calculate_loan_terms")
        => /\ result.loan_terms.loan_term_months > 0
           /\ result.loan_terms.interest_rate > 0
           /\ result.loan_terms.interest_rate_decimal > 0
    /\ (Succeeded("generate_loan_decision") /\ result.loan_terms # None)
        => /\ result.loan_terms.loan_term_months > 0
           /\ result.loan_terms.interest_rate_percent > 0
    /\ (pc = "returned" /\ tool \in {"calculate_loan_terms", "generate_loan_decision"}
            /\ WellFormed)
        => ~IsError(result)

\* the lowest rate of the model: the best credit band with the electric discount
C24_Witness ==
    /\ Succeeded("calculate_loan_terms")
    /\ Arg("credit_score") = Num(780)
    /\ Arg("vehicle_type") = Str("electric_vehicle")
    /\ result.loan_terms.interest_rate = 3250
    /\ result.loan_terms.loan_term_months = 72

\* what calculate_loan_terms returns for a 25000 loan at credit score 780 on
\* the vehicle type of the request in hand
TermsForVehicle ==
    calculate_loan_terms(
        Arguments([NoArgs EXCEPT !.loan_amount = Num(25000),
                                 !.credit_score = Num(780),
                                 !.vehicle_type = Arg("vehicle_type")]))

\* C25: for every vehicle type the interest_rate_adjustment that
\* get_special_vehicles reports is the adjustment calculate_loan_terms adds
\* to the base rate for that vehicle type (0 for the types
\* get_special_vehicles treats as standard).
C25_AdjustmentsAgree ==
    Succeeded("get_special_vehicles")
        => /\ ~IsError(TermsForVehicle)
           /\ result.financing_terms.interest_rate_adjustment
                = TermsForVehicle.loan_terms.interest_rate_decimal - base_rate(780)

\* C26: generate_loan_decision returns "approved" only for credit_score >=
\* 700, annual_income > 0 with loan_amount / annual_income <= 4, and
\* loan_amount <= 100000; without income information or above 100000 the
\* decision is at best approved_with_conditions.
C26_ApprovedOnlyWhen ==
    (Succeeded("generate_loan_decision") /\ result.decision = "approved")
        => /\ Arg("credit_score").n >= 700
           /\ IsNum(Arg("annual_income"))
           /\ Arg("annual_income").n > 0
           /\ Arg("loan_amount").n <= 4 * Arg("annual_income").n
           /\ Arg("loan_amount").n <= 100000

\* approved on the edge of each condition's band: ratio exactly 4
C26_Witness ==
    /\ Succeeded("generate_loan_decision")
    /\ Arg("loan_amount") = Num(20000)
    /\ Arg("annual_income") = Num(5000)
    /\ Arg("credit_score") = Num(750)
    /\ result.approval_score >= 80
    /\ result.decision = "approved"

\* C27: for a credit_score below 600 generate_loan_decision never returns
\* approved or approved_with_conditions: approval_score is at most 57 and
\* loan_terms is null, whatever the income, loan amount or vehicle type.
C27_Below600NeverApproved ==
    (Succeeded("generate_loan_decision") /\ Arg("credit_score").n < 600)
        => /\ result.decision \notin Approved
           /\ result.approval_score <= 57
           /\ result.loan_terms = None

\* the best application below 600: 0 + 25 + 20 + 12 points
C27_Witness ==
    /\ Succeeded("generate_loan_decision")
    /\ Arg("credit_score") = Num(599)
    /\ Arg("vehicle_type") = Str("electric_vehicle")
    /\ result.approval_score = 57
    /\ result.decision = "pending_review"
    /\ result.loan_terms = None

\* what evaluate_loan_risk returns for the application in hand
RiskEvaluationOfApplication == evaluate_loan_risk(context)

\* C28: for every application that generate_loan_decision approves,
\* evaluate_loan_risk called with the same application_id, customer_id,
\* loan_amount, credit_score and vehicle_type does not recommend "reject".
C28_ApprovedNotRejected ==
    (Succeeded("generate_loan_decision") /\ result.decision = "approved")
        => /\ ~IsError(RiskEvaluationOfApplication)
           /\ RiskEvaluationOfApplication.evaluation_summary.recommendation
                # "reject"

\* the two models differ: approved with 82 points, 63 points in the evaluation
C28_Witness ==
    /\ Succeeded("generate_loan_decision")
    /\ Arg("vehicle_type") = Str("classic_vehicle")
    /\ Arg("loan_amount") = Num(60000)
    /\ result.approval_score = 82
    /\ result.decision = "approved"
    /\ RiskEvaluationOfApplication.evaluation_summary.risk_score = 63
    /\ RiskEvaluationOfApplication.evaluation_summary.recommendation
        = "approve_with_conditions"

\* C29: in every result of validate_loan_application the flags is_valid,
\* ready_for_processing and business_rules_passed have one value, true
\* exactly when validation_errors is empty; so a missing required field
\* makes business_rules_passed false, and required_fields_complete = false
\* implies is_valid = false.
C29_FlagsAgree ==
    Validated
        => /\ result.is_valid = result.validation_summary.ready_for_processing
           /\ result.is_valid = result.validation_summary.business_rules_passed
           /\ result.is_valid <=> result.validation_errors = <<>>
           /\ ~result.validation_summary.required_fields_complete
                => /\ ~result.is_valid
                   /\ ~result.validation_summary.business_rules_passed

\* a missing vehicle_type and nothing else wrong
C29_Witness ==
    /\ Validated
    /\ Len(result.validation_errors) = 1
    /\ result.validation_errors[1]
        = Msg("Missing required fields", <<Str("vehicle_type")>>)
    /\ ~result.validation_summary.required_fields_complete
    /\ ~result.validation_summary.business_rules_passed
    /\ ~result.is_valid

\* what get_special_vehicles returns for the vehicle type calculate_loan_terms
\* works with ("standard" when the request has none)
SpecialVehicleOfRequest ==
    get_special_vehicles(
        Arguments([NoArgs EXCEPT
                     !.vehicle_type = GetDefault(Arg("vehicle_type"), Str("standard"))]))

\* C30: for every vehicle type the loan term calculate_loan_terms assigns is
\* at most the max_loan_term_months get_special_vehicles reports for that
\* vehicle type, the types answered with the standard entry included.
C30_TermWithinMaximum ==
    /\ Succeeded("calculate_loan_terms")
        => /\ ~IsError(SpecialVehicleOfRequest)
           /\ result.loan_terms.loan_term_months
                <= SpecialVehicleOfRequest.financing_terms.max_loan_term_months
    /\ Succeeded("get_special_vehicles")
        => TermsForVehicle.loan_terms.loan_term_months
             <= result.financing_terms.max_loan_term_months

\* a term equal to the maximum
C30_Witness ==
    /\ Succeeded("calculate_loan_terms")
    /\ Arg("vehicle_type") = Str("commercial_vehicle")
    /\ result.loan_terms.loan_term_months = 48
    /\ SpecialVehicleOfRequest.category = "commercial"
    /\ SpecialVehicleOfRequest.financing_terms.max_loan_term_months = 48

====
